---------------------------- MODULE Spec2Model ----------------------------
(***************************************************************************)
(* A model of butterfly_effect/kinematic.py: the elastic-collision         *)
(* formula, the collision-vector detectors and their double dispatch, the  *)
(* per-tick pair pass of CollisionSystem, and the motion / fission step of *)
(* Ball and Splitter.                                                      *)
(*                                                                         *)
(* Numbers.  Python floats are modelled by exact rationals <<n, d>> in     *)
(* lowest terms (d > 0); float('inf') is <<1, 0>>.  Sizes live in Q(sqrt2) *)
(* because fission divides a size by sqrt(2).                              *)
(*                                                                         *)
(* Vectors.  ppb's Vector is modelled exactly.  A vector is a finite map   *)
(* from a frame angle (0, 10, ..., 80 degrees) to a non-zero pair of       *)
(* rationals and denotes the sum of the pairs, each rotated by its frame   *)
(* angle.  A vector built from coordinates lives in frame 0; rotating by a *)
(* multiple of 10 degrees moves components between frames (a quarter turn *)
(* stays inside a frame).  Sum, difference, scaling and rotation are exact *)
(* on every vector; the dot product and the length are exact on vectors    *)
(* of one frame, which is where the code uses them in this model.          *)
(***************************************************************************)
EXTENDS Integers, Sequences, FiniteSets, TLC

VARIABLES
    objs,     \* id -> body record: every body constructed so far
    scene,    \* the live-body collection: the set of ids in the scene
    queue,    \* ids still to receive this tick's Update event, in order
    dt,       \* time_delta of the tick being dispatched
    ticks,    \* number of ticks started
    status,   \* "running", or "raised" once a handler has raised
    log,      \* the pairs visited by CollisionSystem.on_update, all ticks
    vel0,     \* id -> velocity at the start of the last pair pass
    ec        \* a direct call of elastic_collision: arguments and result

vars == <<objs, scene, queue, dt, ticks, status, log, vel0, ec>>

---------------------------------------------------------------------------
(* Bounds of the model *)

MaxSpeed == 1       \* velocity components range over -MaxSpeed..MaxSpeed
MaxTicks == 2       \* ticks dispatched per behaviour, collision scenes
MaxSplitTicks == 3  \* ticks dispatched per behaviour, fission scenes

---------------------------------------------------------------------------
(* Exact rational arithmetic standing for Python float arithmetic *)

Abs(a) == IF a < 0 THEN -a ELSE a

\* Each operator below binds its arguments to their values once
\* (x \in {x0}), so that an evaluation never repeats an argument's own.
RECURSIVE Gcd(_, _)
Gcd(a0, b0) ==
    CHOOSE g \in {IF b = 0 THEN a ELSE Gcd(b, a % b) : a \in {a0}, b \in {b0}} :
        TRUE

\* n/d in lowest terms with a denominator >= 0
Rat(n0, d0) ==
    CHOOSE r \in {IF d < 0 THEN <<(-n) \div g, (-d) \div g>>
                  ELSE <<n \div g, d \div g>> :
                      n \in {n0}, d \in {d0}, g \in {Gcd(Abs(n0), Abs(d0))}} :
        TRUE

I(n) == <<n, 1>>

inf == <<1, 0>>

RAdd(p0, q0) ==
    CHOOSE r \in {IF g = 0 THEN Rat(p[1] * q[2] + q[1] * p[2], p[2] * q[2])
                  ELSE Rat(p[1] * (q[2] \div g) + q[1] * (p[2] \div g),
                           (p[2] \div g) * q[2]) :
                      p \in {p0}, q \in {q0}, g \in {Gcd(p0[2], q0[2])}} :
        TRUE
RNeg(p) == <<-p[1], p[2]>>
RSub(p, q) == RAdd(p, RNeg(q))
RMul(p0, q0) ==
    CHOOSE r \in {IF g1 = 0 \/ g2 = 0 THEN Rat(p[1] * q[1], p[2] * q[2])
                  ELSE Rat((p[1] \div g1) * (q[1] \div g2),
                           (p[2] \div g2) * (q[2] \div g1)) :
                      p \in {p0}, q \in {q0},
                      g1 \in {Gcd(Abs(p0[1]), q0[2])},
                      g2 \in {Gcd(Abs(q0[1]), p0[2])}} :
        TRUE
RDiv(p, q) == RMul(p, Rat(q[2], q[1]))
RLe(p0, q0) ==
    \E p \in {p0}, q \in {q0}, g \in {Gcd(p0[2], q0[2])} :
        IF g = 0 THEN p[1] * q[2] <= q[1] * p[2]
        ELSE p[1] * (q[2] \div g) <= q[1] * (p[2] \div g)
RLt(p, q) == ~RLe(q, p)
RSq(p0) == CHOOSE r \in {RMul(p, p) : p \in {p0}} : TRUE

\* The integer square root of a perfect square n >= 0, or -1 when n is not
\* one: bisection of lo..hi, where lo*lo <= n < (hi+1)*(hi+1).
RECURSIVE ISqrtIn(_, _, _)
ISqrtIn(n, lo, hi) ==
    IF lo = hi THEN (IF lo * lo = n THEN lo ELSE -1)
    ELSE LET mid == (lo + hi + 1) \div 2
         IN  IF mid * mid <= n THEN ISqrtIn(n, mid, hi)
             ELSE ISqrtIn(n, lo, mid - 1)

\* 46340 is the largest integer whose square is a 32-bit integer.
ISqrt(n) == ISqrtIn(n, 0, IF n < 46340 THEN n ELSE 46340)

\* A rational in lowest terms is a square iff its numerator and its
\* denominator are.
HasSqrt(p) == p[1] >= 0 /\ ISqrt(p[1]) >= 0 /\ ISqrt(p[2]) >= 0
sqrt(p) == <<ISqrt(p[1]), ISqrt(p[2])>>

---------------------------------------------------------------------------
(* Numbers a + b*sqrt(2), for sizes *)

Q2(a, b) == [a |-> a, b |-> b]
Q2Add(s, t) == Q2(RAdd(s.a, t.a), RAdd(s.b, t.b))
Q2Half(s) == Q2(RDiv(s.a, I(2)), RDiv(s.b, I(2)))
\* (a + b*sqrt2) / sqrt2 = b + (a/2)*sqrt2
Q2DivSqrt2(s) == Q2(s.b, RDiv(s.a, I(2)))
\* (a + b*sqrt2)^2 = a^2 + 2b^2 + 2ab*sqrt2
Q2Sq(s) == Q2(RAdd(RSq(s.a), RMul(I(2), RSq(s.b))),
              RMul(I(2), RMul(s.a, s.b)))
\* p <= a + b*sqrt2 for a rational p, decided by the sign of b and squares
RLeQ2(p, s) ==
    LET c == RSub(p, s.a)       \* p - a <= b*sqrt2 ?
    IN  IF s.b = I(0) THEN RLe(p, s.a)
        ELSE IF RLe(I(0), s.b)
        THEN RLe(c, I(0)) \/ RLe(RSq(c), RMul(I(2), RSq(s.b)))
        ELSE RLe(c, I(0)) /\ RLe(RMul(I(2), RSq(s.b)), RSq(c))

---------------------------------------------------------------------------
(* ppb.Vector *)

Frames == {0, 10, 20, 30, 40, 50, 60, 70, 80}

ZeroPair == <<I(0), I(0)>>

Comp(u, k) == IF k \in DOMAIN u THEN u[k] ELSE ZeroPair

\* Drop the zero components: every vector has one representation.
Trim(f) ==
    LET D == {k \in DOMAIN f : f[k] # ZeroPair}
    IN  [k \in D |-> f[k]]

Vector(x, y) == Trim([k \in {0} |-> <<x, y>>])

VAdd(u, v) ==
    Trim([k \in DOMAIN u \cup DOMAIN v |->
            <<RAdd(Comp(u, k)[1], Comp(v, k)[1]),
              RAdd(Comp(u, k)[2], Comp(v, k)[2])>>])

Scale(c, u) == Trim([k \in DOMAIN u |-> <<RMul(c, u[k][1]), RMul(c, u[k][2])>>])

VNeg(u) == Scale(I(-1), u)
VSub(u, v) == VAdd(u, VNeg(v))

\* bool(vector): a vector is falsy iff it is the zero vector
Truthy(u) == DOMAIN u # {}

\* The one frame two vectors share (frame 0 for two zero vectors).
FrameOf(u, v) == CHOOSE k \in Frames : DOMAIN u \cup DOMAIN v \subseteq {k}
OneFrame(u, v) == \E k \in Frames : DOMAIN u \cup DOMAIN v \subseteq {k}

\* x * v between vectors: the dot product
Dot(u, v) ==
    LET k == FrameOf(u, v)
    IN  RAdd(RMul(Comp(u, k)[1], Comp(v, k)[1]),
             RMul(Comp(u, k)[2], Comp(v, k)[2]))

\* vector.length squared; comparisons of lengths are made on squares
Length2(u) == Dot(u, u)

\* A quarter turn counter-clockwise, q times, of a pair
RECURSIVE Quarter(_, _)
Quarter(p, q) == IF q = 0 THEN p ELSE Quarter(<<RNeg(p[2]), p[1]>>, q - 1)

\* The components of u that land in frame k when u is rotated by deg
\* (deg a multiple of 10): the component of frame j lands in frame
\* (j + deg) mod 90, after ((j + deg) mod 360) div 90 quarter turns.
Landing(u, deg, k) ==
    LET j == (k - deg) % 90
    IN  Quarter(Comp(u, j), ((j + (deg % 360)) % 360) \div 90)

rotate(u, deg) == Trim([k \in Frames |-> Landing(u, deg, k)])

---------------------------------------------------------------------------
(* Results of a call that may decline or raise *)

Ok(v) == [tag |-> "ok", val |-> v]
NotImplemented == [tag |-> "NotImplemented", val |-> Vector(I(0), I(0))]
\* ZeroDivisionError out of Vector.normalize
Raise == [tag |-> "raise", val |-> Vector(I(0), I(0))]
\* A length that is no rational: outside what the exact arithmetic holds.
Irrational == [tag |-> "irrational", val |-> Vector(I(0), I(0))]

Failed(r) == r.tag \in {"raise", "irrational"}

\* Vector.normalize is scale_to(1): (1 / self.length) * self, which divides
\* by zero for the zero vector.
normalize(u) ==
    IF ~Truthy(u) THEN Raise
    ELSE IF ~HasSqrt(Length2(u)) THEN Irrational
    ELSE Ok(Scale(RDiv(I(1), sqrt(Length2(u))), u))

\* u.length <= s for a size expression s >= 0, decided on the squares
LengthLe(u, s) == RLeQ2(Length2(u), Q2Sq(s))

---------------------------------------------------------------------------
(* Bodies *)

Body(cls, position, velocity, mass, size, rotation) ==
    [cls |-> cls, position |-> position, velocity |-> velocity,
     mass |-> mass, size |-> size, rotation |-> rotation]

\* isinstance(o, Ball): Splitter is a subclass of Ball
IsBall(o) == o.cls \in {"Ball", "Splitter"}

split_angle == 10

---------------------------------------------------------------------------
(* CollisionSystem.elastic_collision *)

\* elastic_collision returning the final normal velocity of O2 instead of
\* its change
elastic_collision_final(x_hat, v, m1, m2, internal) ==
    IF m1 = inf /\ m2 = inf
    THEN <<Vector(I(0), I(0)), Vector(I(0), I(0))>>
    ELSE LET v_normal == Dot(x_hat, v)
         IN  IF RLe(I(0), v_normal) /\ ~internal
             THEN <<Vector(I(0), I(0)), Vector(I(0), I(0))>>
             ELSE IF m1 = inf
             THEN <<Vector(I(0), I(0)), Scale(RMul(I(-2), v_normal), x_hat)>>
             ELSE IF m2 = inf
             THEN <<Scale(RMul(I(2), v_normal), x_hat), Vector(I(0), I(0))>>
             ELSE LET total_mass == RAdd(m1, m2)
                      dv1_normal == RMul(RDiv(RMul(I(2), m2), total_mass), v_normal)
                      dv2_normal == RMul(RDiv(RSub(m2, m1), total_mass), v_normal)
                  IN  <<Scale(dv1_normal, x_hat), Scale(dv2_normal, x_hat)>>

\* elastic_collision without the test of the internal flag
elastic_collision_unguarded(x_hat, v, m1, m2, internal) ==
    IF m1 = inf /\ m2 = inf
    THEN <<Vector(I(0), I(0)), Vector(I(0), I(0))>>
    ELSE LET v_normal == Dot(x_hat, v)
         IN  IF m1 = inf
             THEN <<Vector(I(0), I(0)), Scale(RMul(I(-2), v_normal), x_hat)>>
             ELSE IF m2 = inf
             THEN <<Scale(RMul(I(2), v_normal), x_hat), Vector(I(0), I(0))>>
             ELSE LET total_mass == RAdd(m1, m2)
                      dv1_normal == RMul(RDiv(RMul(I(2), m2), total_mass), v_normal)
                      dv2_normal == RMul(RDiv(RSub(m2, m1), total_mass), v_normal)
                  IN  <<Scale(dv1_normal, x_hat),
                        Scale(RSub(dv2_normal, v_normal), x_hat)>>

\* elastic_collision with the tuple of the m1-infinite case in the wrong
\* order
elastic_collision_wall_moves(x_hat, v, m1, m2, internal) ==
    IF m1 = inf /\ m2 = inf
    THEN <<Vector(I(0), I(0)), Vector(I(0), I(0))>>
    ELSE LET v_normal == Dot(x_hat, v)
         IN  IF RLe(I(0), v_normal) /\ ~internal
             THEN <<Vector(I(0), I(0)), Vector(I(0), I(0))>>
             ELSE IF m1 = inf
             THEN <<Scale(RMul(I(-2), v_normal), x_hat), Vector(I(0), I(0))>>
             ELSE IF m2 = inf
             THEN <<Scale(RMul(I(2), v_normal), x_hat), Vector(I(0), I(0))>>
             ELSE LET total_mass == RAdd(m1, m2)
                      dv1_normal == RMul(RDiv(RMul(I(2), m2), total_mass), v_normal)
                      dv2_normal == RMul(RDiv(RSub(m2, m1), total_mass), v_normal)
                  IN  <<Scale(dv1_normal, x_hat),
                        Scale(RSub(dv2_normal, v_normal), x_hat)>>

\* elastic_collision with the sign of the m2-infinite case copied from the
\* m1-infinite case
elastic_collision_paddle_sign(x_hat, v, m1, m2, internal) ==
    IF m1 = inf /\ m2 = inf
    THEN <<Vector(I(0), I(0)), Vector(I(0), I(0))>>
    ELSE LET v_normal == Dot(x_hat, v)
         IN  IF RLe(I(0), v_normal) /\ ~internal
             THEN <<Vector(I(0), I(0)), Vector(I(0), I(0))>>
             ELSE IF m1 = inf
             THEN <<Vector(I(0), I(0)), Scale(RMul(I(-2), v_normal), x_hat)>>
             ELSE IF m2 = inf
             THEN <<Scale(RMul(I(-2), v_normal), x_hat), Vector(I(0), I(0))>>
             ELSE LET total_mass == RAdd(m1, m2)
                      dv1_normal == RMul(RDiv(RMul(I(2), m2), total_mass), v_normal)
                      dv2_normal == RMul(RDiv(RSub(m2, m1), total_mass), v_normal)
                  IN  <<Scale(dv1_normal, x_hat),
                        Scale(RSub(dv2_normal, v_normal), x_hat)>>

\* elastic_collision exchanging half the impulse: the bodies end with no
\* relative normal velocity
elastic_collision_half(x_hat, v, m1, m2, internal) ==
    IF m1 = inf /\ m2 = inf
    THEN <<Vector(I(0), I(0)), Vector(I(0), I(0))>>
    ELSE LET v_normal == Dot(x_hat, v)
         IN  IF RLe(I(0), v_normal) /\ ~internal
             THEN <<Vector(I(0), I(0)), Vector(I(0), I(0))>>
             ELSE IF m1 = inf
             THEN <<Vector(I(0), I(0)), Scale(RMul(I(-1), v_normal), x_hat)>>
             ELSE IF m2 = inf
             THEN <<Scale(RMul(I(1), v_normal), x_hat), Vector(I(0), I(0))>>
             ELSE LET total_mass == RAdd(m1, m2)
                      dv1_normal == RMul(RDiv(m2, total_mass), v_normal)
                      dv2_normal == RMul(RDiv(m2, total_mass), v_normal)
                  IN  <<Scale(dv1_normal, x_hat),
                        Scale(RSub(dv2_normal, v_normal), x_hat)>>

elastic_collision(x_hat, v, m1, m2, internal) ==
    IF m1 = inf /\ m2 = inf
    THEN <<Vector(I(0), I(0)), Vector(I(0), I(0))>>
    ELSE LET v_normal == Dot(x_hat, v)
         IN  IF RLe(I(0), v_normal) /\ ~internal
             THEN <<Vector(I(0), I(0)), Vector(I(0), I(0))>>
             ELSE IF m1 = inf
             THEN <<Vector(I(0), I(0)), Scale(RMul(I(-2), v_normal), x_hat)>>
             ELSE IF m2 = inf
             THEN <<Scale(RMul(I(2), v_normal), x_hat), Vector(I(0), I(0))>>
             ELSE LET total_mass == RAdd(m1, m2)
                      dv1_normal == RMul(RDiv(RMul(I(2), m2), total_mass), v_normal)
                      dv2_normal == RMul(RDiv(RSub(m2, m1), total_mass), v_normal)
                      dv1 == Scale(dv1_normal, x_hat)
                      dv2 == Scale(RSub(dv2_normal, v_normal), x_hat)
                  IN  <<dv1, dv2>>

---------------------------------------------------------------------------
(* The detectors *)

CollidableMixin_collision_vector(self, other) == NotImplemented

\* The body of Ball.collision_vector once x = other.position - self.position
\* is computed
Ball_collision_at(self, other, x) ==
    IF ~LengthLe(x, Q2Half(Q2Add(self.size, other.size)))
    THEN Ok(Vector(I(0), I(0)))
    ELSE IF ~Truthy(x)
    THEN Ok(x)
    ELSE normalize(x)

Ball_collision_vector(self, other) ==
    IF IsBall(other)
    THEN Ball_collision_at(self, other, VSub(other.position, self.position))
    ELSE NotImplemented

\* Sprite.left / bottom / right / top and their corner points: the square of
\* side `size` centred on `position`, before rotation.  A wall's size is
\* rational.
Corner(self, sx, sy) ==
    LET h == RDiv(self.size.a, I(2))
    IN  VAdd(self.position, Vector(RMul(I(sx), h), RMul(I(sy), h)))
left_bottom(self) == Corner(self, -1, -1)
left_top(self) == Corner(self, -1, 1)
right_bottom(self) == Corner(self, 1, -1)
right_top(self) == Corner(self, 1, 1)

\* The (c1, c2) list of the side loop, in the code's order
Sides(self) ==
    << <<left_bottom(self), left_top(self)>>,
       <<left_bottom(self), right_bottom(self)>>,
       <<right_bottom(self), right_top(self)>>,
       <<left_top(self), right_top(self)>> >>

\* The list of the corner loop, in the code's order
Corners(self) ==
    <<left_top(self), right_top(self), left_bottom(self), right_bottom(self)>>

\* r.rotate(self.rotation) for the outcome r of n.normalize()
RotatedOutcome(self, r) ==
    IF r.tag = "ok" THEN Ok(rotate(r.val, self.rotation)) ELSE r

\* n.normalize().rotate(self.rotation)
NormalRotated(self, n) == RotatedOutcome(self, normalize(n))

\* The corner loop from its i-th entry on; CornerTest is one iteration once
\* n = position_rotated - c is computed
RECURSIVE CornerLoop(_, _, _, _, _)
CornerTest(self, b, position_rotated, corners, i, n) ==
    IF LengthLe(n, Q2Half(b.size))
    THEN NormalRotated(self, n)
    ELSE CornerLoop(self, b, position_rotated, corners, i + 1)

CornerLoop(self, b, position_rotated, corners, i) ==
    IF i > Len(corners) THEN Ok(Vector(I(0), I(0)))
    ELSE CornerTest(self, b, position_rotated, corners, i,
                    VSub(position_rotated, corners[i]))

\* The side loop from its i-th entry on, then the corner loop.  SideTest is
\* the condition and the return of one iteration, once e and n are computed;
\* SideProject computes them from x, c and c_hat.
RECURSIVE SideLoop(_, _, _, _, _)
SideTest(self, b, position_rotated, sides, i, c, e, n) ==
    IF /\ RLe(I(0), e)
       /\ RLe(RSq(e), Length2(c))
       /\ LengthLe(n, Q2Half(b.size))
    THEN NormalRotated(self, n)
    ELSE SideLoop(self, b, position_rotated, sides, i + 1)

SideNormal(self, b, position_rotated, sides, i, x, c, c_hat, e) ==
    SideTest(self, b, position_rotated, sides, i, c, e,
             VSub(x, Scale(e, c_hat)))

SideProject(self, b, position_rotated, sides, i, x, c, c_hat) ==
    IF c_hat.tag # "ok" THEN c_hat
    ELSE SideNormal(self, b, position_rotated, sides, i, x, c, c_hat.val,
                    Dot(x, c_hat.val))

SideEdge(self, b, position_rotated, sides, i, x, c) ==
    SideProject(self, b, position_rotated, sides, i, x, c, normalize(c))

SideLoop(self, b, position_rotated, sides, i) ==
    IF i > Len(sides)
    THEN CornerLoop(self, b, position_rotated, Corners(self), 1)
    ELSE SideEdge(self, b, position_rotated, sides, i,
                  VSub(position_rotated, sides[i][1]),
                  VSub(sides[i][2], sides[i][1]))

Wall_collision_with_ball(self, b) ==
    SideLoop(self, b,
             VAdd(rotate(VSub(b.position, self.position), -self.rotation),
                  self.position),
             Sides(self), 1)

Wall_collision_vector(self, other) ==
    IF IsBall(other) THEN Wall_collision_with_ball(self, other)
    ELSE NotImplemented

\* o.collision_vector(other): the method of o's class
Method_collision_vector(self, other) ==
    CASE IsBall(self) -> Ball_collision_vector(self, other)
      [] self.cls = "Wall" -> Wall_collision_vector(self, other)
      [] OTHER -> CollidableMixin_collision_vector(self, other)

\* CollisionSystem.collision_vector; an exception raised by a detector
\* passes through.  Negated is the second half, for the outcome neg_x_hat of
\* o2.collision_vector(o1); Dispatched is the whole, for the outcome x_hat of
\* o1.collision_vector(o2).
\* The second half of the dispatch without the negation
Negated_forgotten(neg_x_hat) ==
    IF Failed(neg_x_hat) THEN neg_x_hat
    ELSE IF neg_x_hat.tag # "NotImplemented"
    THEN Ok(neg_x_hat.val)
    ELSE Ok(Vector(I(0), I(0)))

Negated(neg_x_hat) ==
    IF Failed(neg_x_hat) THEN neg_x_hat
    ELSE IF neg_x_hat.tag # "NotImplemented"
    THEN Ok(VNeg(neg_x_hat.val))
    ELSE Ok(Vector(I(0), I(0)))

Dispatched(o1, o2, x_hat) ==
    IF x_hat.tag # "NotImplemented" THEN x_hat
    ELSE Negated(Method_collision_vector(o2, o1))

CollisionSystem_collision_vector(o1, o2) ==
    Dispatched(o1, o2, Method_collision_vector(o1, o2))

-----
(* CollisionSystem.on_update: the pair pass *)

\* The ids of a set in increasing order: the order the collection is read in
RECURSIVE Ordered(_)
Ordered(S) ==
    IF S = {} THEN <<>>
    ELSE LET m == CHOOSE a \in S : \A b \in S : a <= b
         IN  <<m>> \o Ordered(S \ {m})

\* itertools.combinations(s, 2): the pairs <<s[i], s[j]>>, i < j, ordered by
\* i and then by j
RECURSIVE combinations2(_, _, _)
combinations2(s, i, j) ==
    IF i >= Len(s) THEN <<>>
    ELSE IF j > Len(s) THEN combinations2(s, i + 1, i + 2)
    ELSE <<<<s[i], s[j]>>>> \o combinations2(s, i, j + 1)

Entry(t, o1, o2, x_hat, v, dv1, dv2) ==
    [tick |-> t, o1 |-> o1, o2 |-> o2, x_hat |-> x_hat, v |-> v,
     dv1 |-> dv1, dv2 |-> dv2]

\* The body of the loop for the pair (o1, o2).  st holds the bodies, the log
\* and whether the pass is still running; a detector that raises ends it.
\* PairApply is lines 74-75 for the deltas d; PairCollide is lines 71-75 for
\* the outcome x_hat of collision_vector.
PairApply(st, t, o1, o2, x_hat, v, d) ==
    [st EXCEPT
       !.objs = [@ EXCEPT ![o1].velocity = VAdd(@, d[1]),
                          ![o2].velocity = VAdd(@, d[2])],
       !.log = Append(@, Entry(t, o1, o2, x_hat, v, d[1], d[2]))]

PairRelative(st, t, o1, o2, x_hat, v) ==
    PairApply(st, t, o1, o2, x_hat, v,
              elastic_collision(x_hat, v, st.objs[o1].mass, st.objs[o2].mass,
                                FALSE))

PairCollide(st, t, o1, o2, x_hat) ==
    IF x_hat.tag = "raise" THEN [st EXCEPT !.status = "raised"]
    ELSE IF x_hat.tag = "irrational" THEN [st EXCEPT !.status = "irrational"]
    ELSE IF ~Truthy(x_hat.val)
    THEN [st EXCEPT !.log =
             Append(@, Entry(t, o1, o2, x_hat.val, Vector(I(0), I(0)),
                             Vector(I(0), I(0)), Vector(I(0), I(0))))]
    ELSE PairRelative(st, t, o1, o2, x_hat.val,
                      VSub(st.objs[o2].velocity, st.objs[o1].velocity))

PairStep(st, t, o1, o2) ==
    IF st.status # "running" THEN st
    ELSE PairCollide(st, t, o1, o2,
                     CollisionSystem_collision_vector(st.objs[o1], st.objs[o2]))

RECURSIVE PairLoop(_, _, _, _)
PairLoop(st, t, pairs, k) ==
    IF k > Len(pairs) THEN st
    ELSE PairLoop(PairStep(st, t, pairs[k][1], pairs[k][2]), t, pairs, k + 1)

\* The objects of the scene that handle Update, in dispatch order
Handlers(S) == Ordered({i \in S : IsBall(objs[i])})

\* One tick begins: the engine publishes Update(time_delta), the system's
\* on_update runs the pair pass over scene.get(kind=CollidableMixin), and
\* the event is then dispatched to the objects of the scene.
CollisionSystem_on_update(time_delta) ==
    /\ status = "running"
    /\ queue = <<>>
    /\ scene # {}
    /\ ticks < MaxTicks
    /\ \E st \in {PairLoop([objs |-> objs, log |-> log, status |-> "running"],
                           ticks + 1,
                           combinations2(Ordered(scene), 1, 2), 1)} :
           /\ st.status # "irrational"
           /\ objs' = st.objs
           /\ log' = st.log
           /\ status' = st.status
           /\ queue' = IF st.status = "running" THEN Handlers(scene) ELSE <<>>
    /\ vel0' = [i \in scene |-> objs[i].velocity]
    /\ dt' = time_delta
    /\ ticks' = ticks + 1
    /\ UNCHANGED <<scene, ec>>

\* One tick begins in a game that registers no system: Update(time_delta)
\* goes straight to the objects of the scene.
Update(time_delta) ==
    /\ status = "running"
    /\ queue = <<>>
    /\ scene # {}
    /\ ticks < MaxSplitTicks
    /\ queue' = Handlers(scene)
    /\ dt' = time_delta
    /\ ticks' = ticks + 1
    /\ UNCHANGED <<objs, scene, status, log, vel0, ec>>

---------------------------------------------------------------------------
(* Ball.on_update and Splitter.on_update *)

\* self.position += self.velocity * update_event.time_delta
Moved(b, time_delta) ==
    [b EXCEPT !.position = VAdd(@, Scale(time_delta, b.velocity))]

Ball_on_update ==
    /\ status = "running"
    /\ queue # <<>>
    /\ objs[Head(queue)].cls = "Ball"
    /\ objs' = [objs EXCEPT ![Head(queue)] = Moved(@, dt)]
    /\ queue' = Tail(queue)
    /\ UNCHANGED <<scene, dt, ticks, status, log, vel0, ec>>

\* The threshold test with > in place of >=
Fissile_strict(b) == RLt(I(1), RMul(RSq(b.mass), Length2(b.velocity)))

\* A child that keeps the whole mass of its parent
Child_whole(b, angle) ==
    Body("Splitter", b.position, rotate(b.velocity, angle),
         b.mass, Q2DivSqrt2(b.size), 0)

\* self.mass * self.velocity.length >= 1, for a finite mass > 0: decided on
\* the squares
Fissile(b) == RLe(I(1), RMul(RSq(b.mass), Length2(b.velocity)))

\* Splitter(position=..., size=self.size / sqrt(2), mass=self.mass / 2,
\*          velocity=self.velocity.rotate(angle))
Child(b, angle) ==
    Body("Splitter", b.position, rotate(b.velocity, angle),
         RDiv(b.mass, I(2)), Q2DivSqrt2(b.size), 0)

Splitter_on_update ==
    /\ status = "running"
    /\ queue # <<>>
    /\ objs[Head(queue)].cls = "Splitter"
    /\ \E self \in {Head(queue)} : \E b \in {Moved(objs[self], dt)} :
           IF Fissile(b)
           THEN /\ objs' = [objs EXCEPT ![self] = b]
                           \o <<Child(b, split_angle), Child(b, -split_angle)>>
                /\ scene' = (scene \cup {Len(objs) + 1, Len(objs) + 2}) \ {self}
           ELSE /\ objs' = [objs EXCEPT ![self] = b]
                /\ scene' = scene
    /\ queue' = Tail(queue)
    /\ UNCHANGED <<dt, ticks, status, log, vel0, ec>>

---------------------------------------------------------------------------
(* A direct call of elastic_collision *)

NoCall ==
    [x_hat |-> Vector(I(0), I(0)), v |-> Vector(I(0), I(0)), m1 |-> I(1),
     m2 |-> I(1), internal |-> FALSE, called |-> TRUE,
     dv1 |-> Vector(I(0), I(0)), dv2 |-> Vector(I(0), I(0))]

Call_elastic_collision ==
    /\ ~ec.called
    /\ \E d \in {elastic_collision(ec.x_hat, ec.v, ec.m1, ec.m2, ec.internal)} :
           ec' = [ec EXCEPT !.called = TRUE, !.dv1 = d[1], !.dv2 = d[2]]
    /\ UNCHANGED <<objs, scene, queue, dt, ticks, status, log, vel0>>

---------------------------------------------------------------------------
(* Inputs *)

\* Unit normals with rational coordinates
UnitVectors ==
    {Vector(I(1), I(0)), Vector(I(0), I(1)), Vector(I(-1), I(0)),
     Vector(I(0), I(-1)), Vector(Rat(3, 5), Rat(4, 5)),
     Vector(Rat(-4, 5), Rat(3, 5))}

Velocities ==
    {Vector(I(a), I(b)) : a \in -MaxSpeed..MaxSpeed, b \in -MaxSpeed..MaxSpeed}

Masses == {Rat(1, 2), I(1), I(4), inf}

TimeDeltas == {I(0), Rat(1, 2)}

\* Velocities of the bodies of a scene
SceneVelocities ==
    {Vector(I(0), I(0)), Vector(I(-1), I(0)), Vector(I(1), I(1))}

BallPositions ==
    {Vector(I(0), I(0)), Vector(Rat(-1, 2), I(0)),
     Vector(Rat(4, 5), Rat(9, 10)), Vector(Rat(3, 5), Rat(4, 5))}

Balls ==
    {Body("Ball", p, v, m, Q2(I(1), I(0)), 0) :
        p \in BallPositions, v \in SceneVelocities, m \in {I(1), I(4), inf}}

Walls ==
    {Body("Wall", p, Vector(I(0), I(0)), inf, Q2(I(1), I(0)), r) :
        p \in {Vector(I(0), I(0)), Vector(I(-1), I(0))}, r \in {0, 90}}

\* Three balls in a row, each touching the next
Rows ==
    {<<Body("Ball", Vector(I(0), I(0)), v1, m1, Q2(I(1), I(0)), 0),
       Body("Ball", Vector(I(1), I(0)), Vector(I(0), I(0)), m2, Q2(I(1), I(0)), 0),
       Body("Ball", Vector(I(2), I(0)), v3, I(1), Q2(I(1), I(0)), 0)>> :
        v1 \in SceneVelocities, v3 \in SceneVelocities,
        m1 \in {I(1), I(4)}, m2 \in {I(1), I(4), inf}}

Splitters ==
    {Body("Splitter", Vector(I(0), I(0)), v, m, Q2(I(1), I(0)), 0) :
        v \in {Vector(I(0), I(0)), Vector(I(1), I(0)), Vector(I(0), I(-2)),
               Vector(Rat(3, 5), Rat(4, 5))},
        m \in {Rat(1, 2), I(1), I(2)}}

InitCommon ==
    /\ queue = <<>>
    /\ dt = I(0)
    /\ ticks = 0
    /\ status = "running"
    /\ log = <<>>
    /\ vel0 = <<>>

InitEC ==
    /\ InitCommon
    /\ objs = <<>>
    /\ scene = {}
    /\ \E x_hat \in UnitVectors, v \in Velocities, m1 \in Masses, m2 \in Masses,
          internal \in BOOLEAN :
          ec = [NoCall EXCEPT !.x_hat = x_hat, !.v = v, !.m1 = m1, !.m2 = m2,
                              !.internal = internal, !.called = FALSE]

InitScene ==
    /\ InitCommon
    /\ ec = NoCall
    /\ \/ \E a \in Balls \cup Walls, b \in Balls \cup Walls : objs = <<a, b>>
       \/ objs \in Rows
    /\ scene = DOMAIN objs

\* Plain Balls sharing a scene with a Splitter
Bystanders ==
    {b \in Balls : b.mass = I(1) /\ b.position = Vector(I(0), I(0))}

InitSplit ==
    /\ InitCommon
    /\ ec = NoCall
    /\ \/ \E a \in Splitters : objs = <<a>>
       \/ \E a \in Splitters, b \in Bystanders : objs = <<a, b>>
    /\ scene = DOMAIN objs

NextEC == Call_elastic_collision

NextScene ==
    \/ \E time_delta \in TimeDeltas : CollisionSystem_on_update(time_delta)
    \/ Ball_on_update

NextSplit ==
    \/ \E time_delta \in TimeDeltas : Update(time_delta)
    \/ Ball_on_update
    \/ Splitter_on_update

SpecEC == InitEC /\ [][NextEC]_vars
SpecScene == InitScene /\ [][NextScene]_vars
SpecSplit == InitSplit /\ [][NextSplit]_vars
\* The engine keeps publishing Update and dispatching it.
SpecSplitFair == SpecSplit /\ WF_vars(NextSplit)

Init == InitEC \/ InitScene
Next == NextEC \/ NextScene
Spec == Init /\ [][Next]_vars

---------------------------------------------------------------------------
(* Vocabulary of the properties *)

Zero == Vector(I(0), I(0))

\* The z component of the cross product: zero iff u and v are parallel
Cross(u, v) ==
    RSub(RMul(Comp(u, 0)[1], Comp(v, 0)[2]), RMul(Comp(u, 0)[2], Comp(v, 0)[1]))

IsUnit(u) == Length2(u) = I(1)

---------------------------------------------------------------------------
(* C1 *)

\* C1: for a unit normal x_hat, a relative velocity v with x_hat.v < 0 and
\* finite masses, the deltas returned by elastic_collision conserve momentum
\* (m1*dv1 + m2*dv2 = 0), conserve kinetic energy along x_hat
\* (m2*vn^2 = m1*(dv1.x_hat)^2 + m2*(vn + dv2.x_hat)^2) and are both parallel
\* to x_hat.
C1_Conservation ==
    (ec.called /\ ec.m1 # inf /\ ec.m2 # inf
        /\ RLt(Dot(ec.x_hat, ec.v), I(0)))
    => /\ VAdd(Scale(ec.m1, ec.dv1), Scale(ec.m2, ec.dv2)) = Zero
       /\ RMul(ec.m2, RSq(Dot(ec.x_hat, ec.v)))
            = RAdd(RMul(ec.m1, RSq(Dot(ec.dv1, ec.x_hat))),
                   RMul(ec.m2, RSq(RAdd(Dot(ec.x_hat, ec.v),
                                        Dot(ec.dv2, ec.x_hat)))))
       /\ Cross(ec.dv1, ec.x_hat) = I(0)
       /\ Cross(ec.dv2, ec.x_hat) = I(0)

\* An oblique approach of two bodies of different finite masses: the call
\* returned non-zero deltas and v has a tangential component.
C1_Witness ==
    /\ ec.called
    /\ ec.m1 = Rat(1, 2) /\ ec.m2 = I(4)
    /\ ec.x_hat = Vector(Rat(3, 5), Rat(4, 5))
    /\ RLt(Dot(ec.x_hat, ec.v), I(0))
    /\ Cross(ec.v, ec.x_hat) # I(0)
    /\ Truthy(ec.dv1) /\ Truthy(ec.dv2)

---------------------------------------------------------------------------
(* C3 *)

\* C3: called with internal = False and x_hat.v >= 0, elastic_collision
\* returns (0, 0) whatever the masses.
C3_SeparatingNoImpulse ==
    (ec.called /\ ~ec.internal /\ RLe(I(0), Dot(ec.x_hat, ec.v)))
    => (ec.dv1 = Zero /\ ec.dv2 = Zero)

\* A call with bodies receding along the normal, one of them a wall
C3_Witness ==
    /\ ec.called /\ ~ec.internal
    /\ RLt(I(0), Dot(ec.x_hat, ec.v))
    /\ ec.m1 = inf /\ ec.m2 = I(1)
    /\ ec.dv1 = Zero /\ ec.dv2 = Zero

---------------------------------------------------------------------------
(* Vocabulary of the properties about the pair pass *)

\* The entries the pair pass of tick t wrote
TickEntries(t) == SelectSeq(log, LAMBDA e : e.tick = t)

\* What the first n entries of a pass added to the velocity of body i
RECURSIVE DeltaSum(_, _, _)
DeltaSum(entries, n, i) ==
    IF n = 0 THEN Zero
    ELSE VAdd(DeltaSum(entries, n - 1, i),
              VAdd(IF entries[n].o1 = i THEN entries[n].dv1 ELSE Zero,
                   IF entries[n].o2 = i THEN entries[n].dv2 ELSE Zero))

\* The pair pass of the current tick has completed and no body has moved
\* since.
AfterPass == ticks > 0 /\ status = "running" /\ queue = Handlers(scene)

---------------------------------------------------------------------------
(* C2 *)

\* C2: a body of infinite mass receives zero velocity change: a call of
\* elastic_collision returns dv1 = 0 when m1 is infinite and dv2 = 0 when m2
\* is infinite, whatever x_hat, v and the internal flag; every pair the pass
\* resolves leaves an infinite-mass body's delta at zero; and no step of any
\* tick changes the velocity of an infinite-mass body.
C2_InfiniteMassUnmoved ==
    [][ /\ ec'.called =>
              /\ ec'.m1 = inf => ec'.dv1 = Zero
              /\ ec'.m2 = inf => ec'.dv2 = Zero
        /\ \A k \in DOMAIN log' :
              /\ objs[log'[k].o1].mass = inf => log'[k].dv1 = Zero
              /\ objs[log'[k].o2].mass = inf => log'[k].dv2 = Zero
        /\ \A i \in DOMAIN objs :
              objs[i].mass = inf => objs'[i].velocity = objs[i].velocity
      ]_vars

\* A moving body of infinite mass was hit by a finite one, which bounced.
C2_Witness ==
    \E k \in DOMAIN log :
        /\ objs[log[k].o1].mass = inf
        /\ Truthy(objs[log[k].o1].velocity)
        /\ objs[log[k].o2].mass # inf
        /\ Truthy(log[k].dv2)

---------------------------------------------------------------------------
(* C4 *)

\* What the three-way dispatch is to return for the outcomes r1 of
\* o1.collision_vector(o2) and r2 of o2.collision_vector(o1)
ThreeWay(r1, r2) ==
    IF r1.tag # "NotImplemented" THEN r1.val
    ELSE IF r2.tag # "NotImplemented" THEN VNeg(r2.val)
    ELSE Zero

\* C4: the normal the pair pass used for a pair (o1, o2) is
\* o1.collision_vector(o2) when that is not NotImplemented, else the negation
\* of o2.collision_vector(o1) when that is not NotImplemented, else the zero
\* vector.
C4_DoubleDispatch ==
    AfterPass =>
        \A k \in DOMAIN log :
            log[k].tick = ticks =>
                log[k].x_hat =
                    ThreeWay(Method_collision_vector(objs[log[k].o1],
                                                     objs[log[k].o2]),
                             Method_collision_vector(objs[log[k].o2],
                                                     objs[log[k].o1]))

\* A pass that visited a Ball followed by a Wall it touches: the Ball
\* declines, the Wall answers, and the answer is negated.
C4_Witness ==
    /\ AfterPass
    /\ \E k \in DOMAIN log :
          /\ log[k].tick = ticks
          /\ objs[log[k].o1].cls = "Ball"
          /\ objs[log[k].o2].cls = "Wall"
          /\ Truthy(log[k].x_hat)
          /\ log[k].x_hat =
                VNeg(Wall_collision_vector(objs[log[k].o2], objs[log[k].o1]).val)

---------------------------------------------------------------------------
(* C5 *)

\* C5: every detector call completes without raising and returns the zero
\* vector or a unit vector, degenerate placements included.
C5_DetectorsTotalAndUnit ==
    /\ status # "raised"
    /\ \A k \in DOMAIN log : ~Truthy(log[k].x_hat) \/ IsUnit(log[k].x_hat)

\* The part of C5 that holds: a normal that a detector does return is the
\* zero vector or a unit vector.
C5_ReturnedNormalsAreUnit ==
    \A k \in DOMAIN log : ~Truthy(log[k].x_hat) \/ IsUnit(log[k].x_hat)

\* A Wall answered for a Ball off its top right corner with the unit normal
\* (3/5, 4/5).
C5_Witness ==
    \E k \in DOMAIN log :
        /\ objs[log[k].o1].cls = "Wall" /\ objs[log[k].o2].cls = "Ball"
        /\ log[k].x_hat = Vector(Rat(3, 5), Rat(4, 5))

---------------------------------------------------------------------------
(* C7 *)

\* The pass of the last tick visited the pairs of combinations(scene, 2),
\* each once and in that order; it computed each relative velocity from the
\* velocities as the earlier pairs of the pass left them; pairs with a zero
\* normal added nothing; and every velocity is the velocity the body began
\* the pass with plus the deltas of its pairs.
SequentialPass ==
    LET entries == TickEntries(ticks)
        pairs == combinations2(Ordered(scene), 1, 2)
    IN  /\ Len(entries) = Len(pairs)
        /\ \A k \in DOMAIN entries :
              /\ <<entries[k].o1, entries[k].o2>> = pairs[k]
              /\ Truthy(entries[k].x_hat) =>
                    entries[k].v =
                       VSub(VAdd(vel0[entries[k].o2],
                                 DeltaSum(entries, k - 1, entries[k].o2)),
                            VAdd(vel0[entries[k].o1],
                                 DeltaSum(entries, k - 1, entries[k].o1)))
              /\ ~Truthy(entries[k].x_hat) =>
                    entries[k].dv1 = Zero /\ entries[k].dv2 = Zero
        /\ \A i \in scene :
              objs[i].velocity
                 = VAdd(vel0[i], DeltaSum(entries, Len(entries), i))

\* C7: in one tick on_update visits every unordered pair of live bodies
\* exactly once, in the enumeration order, applying each pair's deltas before
\* the next pair is resolved.
C7_EveryPairSequentially == ticks > 0 => SequentialPass

\* The same, for the ticks in which no detector raises
C7_WhenNoDetectorRaises == (ticks > 0 /\ status = "running") => SequentialPass

\* A later pair of a pass was resolved with a velocity that an earlier pair
\* of the same pass had changed.
C7_LaterPairSeesUpdate ==
    /\ ticks > 0 /\ status = "running"
    /\ \E k \in DOMAIN TickEntries(ticks) :
          /\ Truthy(TickEntries(ticks)[k].dv1) \/ Truthy(TickEntries(ticks)[k].dv2)
          /\ TickEntries(ticks)[k].v #
                VSub(vel0[TickEntries(ticks)[k].o2], vel0[TickEntries(ticks)[k].o1])

---------------------------------------------------------------------------
(* C8 *)

\* Entries i < j resolve the same pair with the same non-zero normal, entry i
\* applied a non-zero impulse, and nothing between them changed the velocity
\* of either body.
ResolvedAgain(i, j) ==
    /\ i < j
    /\ log[i].o1 = log[j].o1 /\ log[i].o2 = log[j].o2
    /\ Truthy(log[i].x_hat) /\ log[j].x_hat = log[i].x_hat
    /\ Truthy(log[i].dv1) \/ Truthy(log[i].dv2)
    /\ \A k \in DOMAIN log :
          (i < k /\ k < j) =>
             /\ log[k].o1 \in {log[i].o1, log[i].o2} => log[k].dv1 = Zero
             /\ log[k].o2 \in {log[i].o1, log[i].o2} => log[k].dv2 = Zero

\* C8: a pair that received a non-zero impulse and is resolved again with the
\* same normal, its velocities otherwise untouched, is found separating
\* (x_hat.(v2 - v1) > 0) and receives the deltas (0, 0).
C8_NoRepeatedImpulse ==
    \A i \in DOMAIN log, j \in DOMAIN log :
        ResolvedAgain(i, j) =>
            /\ RLt(I(0), Dot(log[j].x_hat, log[j].v))
            /\ log[j].dv1 = Zero /\ log[j].dv2 = Zero

\* Two finite bodies of different masses, still overlapping a tick after
\* their collision
C8_Witness ==
    \E i \in DOMAIN log, j \in DOMAIN log :
        /\ ResolvedAgain(i, j)
        /\ log[j].tick = log[i].tick + 1
        /\ objs[log[i].o1].mass = I(4) /\ objs[log[i].o2].mass = I(1)

---------------------------------------------------------------------------
(* C9 *)

\* The pair step on bodies i and j of the current state, taken as (o1, o2)
StepOn(o1, o2) ==
    PairStep([objs |-> objs, log |-> <<>>, status |-> "running"], 0, o1, o2)

\* C9: in a state from which the collision pass runs, resolving a pair as
\* (A, B) and as (B, A) gives each body the same final velocity (and raises
\* in one order iff it does in the other).
C9_OrderIndependent ==
    \A i \in scene, j \in scene :
        (i < j /\ status = "running" /\ queue = <<>> /\ ticks < MaxTicks) =>
            \A f \in {StepOn(i, j)}, r \in {StepOn(j, i)} :
                f.status # "irrational" =>
                    /\ r.status = f.status
                    /\ r.objs[i].velocity = f.objs[i].velocity
                    /\ r.objs[j].velocity = f.objs[j].velocity

\* The pass has just bounced a Ball off a Wall, visited as (Wall, Ball): the
\* Ball left with its velocity before the pass plus the delta of that step.
C9_Witness ==
    /\ AfterPass
    /\ \E k \in DOMAIN log :
          /\ log[k].tick = ticks
          /\ objs[log[k].o1].cls = "Wall" /\ objs[log[k].o2].cls = "Ball"
          /\ Truthy(log[k].dv2)
          /\ objs[log[k].o2].velocity = VAdd(vel0[log[k].o2], log[k].dv2)

---------------------------------------------------------------------------
(* C6 *)

\* mass * |velocity| of a body, squared
Momentum2(b) == RMul(RMul(b.mass, b.mass), Dot(b.velocity, b.velocity))

\* c is what a child of the parent p is to be, turned by angle: at p's
\* position, with half its mass, its size over sqrt(2) (c.size * sqrt(2) is
\* p.size) and its velocity rotated by angle.
IsChildOf(c, p, angle) ==
    /\ c.cls = "Splitter"
    /\ c.position = p.position
    /\ RAdd(c.mass, c.mass) = p.mass
    /\ Q2(RMul(I(2), c.size.b), c.size.a) = p.size
    /\ c.velocity = rotate(p.velocity, angle)

\* The step of a Splitter's on_update, on the Splitter self
FissionRule(self) ==
    /\ objs'[self].position =
           VAdd(objs[self].position, Scale(dt, objs[self].velocity))
    /\ objs'[self].velocity = objs[self].velocity
    /\ objs'[self].mass = objs[self].mass
    /\ IF ~RLt(Momentum2(objs[self]), I(1))
       THEN /\ self \notin scene'
            /\ \E c1 \in scene' \ scene, c2 \in scene' \ scene :
                  /\ c1 # c2
                  /\ scene' = (scene \ {self}) \cup {c1, c2}
                  /\ IsChildOf(objs'[c1], objs'[self], split_angle)
                  /\ IsChildOf(objs'[c2], objs'[self], -split_angle)
       ELSE scene' = scene

\* C6: the update of a Splitter advances its position by velocity * dt and
\* then replaces it iff mass * |velocity| >= 1: two new Splitters join the
\* scene at the advanced position with half the mass, the size over sqrt(2)
\* and the velocity rotated by +split_angle and -split_angle, and the parent
\* leaves the scene (and no body that left the scene comes back); below the
\* threshold the scene is unchanged.
C6_FissionRule ==
    [][ /\ (queue # <<>> /\ objs[Head(queue)].cls = "Splitter")
            => FissionRule(Head(queue))
        /\ \A i \in DOMAIN objs : i \notin scene => i \notin scene'
      ]_vars

\* A Splitter of momentum exactly 1 has moved by a non-zero step and has
\* just been replaced: it is out of the scene and a child half its mass sits
\* where it stopped.
C6_Witness ==
    \E i \in DOMAIN objs \ scene :
        /\ objs[i].cls = "Splitter"
        /\ Momentum2(objs[i]) = I(1)
        /\ Truthy(objs[i].position)
        /\ \E c \in scene : IsChildOf(objs[c], objs[i], split_angle)

---------------------------------------------------------------------------
(* C10 *)

LiveSplitters == {i \in scene : objs[i].cls = "Splitter"}

\* No live Splitter is at or above the threshold
NoFissile == \A i \in LiveSplitters : RLt(Momentum2(objs[i]), I(1))

RECURSIVE MassSum(_)
MassSum(S) ==
    IF S = {} THEN I(0)
    ELSE LET i == CHOOSE i \in S : TRUE
         IN  RAdd(objs[i].mass, MassSum(S \ {i}))

\* The live Splitters weigh together what the original (body 1) weighed, and
\* every Splitter ever made has its speed.
LineageKept ==
    /\ MassSum(LiveSplitters) = objs[1].mass
    /\ \A i \in DOMAIN objs :
          objs[i].cls = "Splitter" =>
              Dot(objs[i].velocity, objs[i].velocity)
                  = Dot(objs[1].velocity, objs[1].velocity)

\* C10: with no collisions, fission stops: eventually no live Splitter has
\* mass * |velocity| >= 1, for good; once none has, the scene no longer
\* changes; and all along the live Splitters' masses add up to the original
\* Splitter's mass, each with the original speed.
C10_FissionTerminates ==
    /\ <>[]NoFissile
    /\ [][NoFissile => scene' = scene]_vars
    /\ []LineageKept

\* Two generations of fission are over: four grandchildren, none at the
\* threshold, and a third tick has gone by that left them alone.
C10_Witness ==
    /\ NoFissile
    /\ queue = <<>>
    /\ ticks = 3
    /\ Cardinality(LiveSplitters) = 4
    /\ \A i \in LiveSplitters : RAdd(objs[i].mass, objs[i].mass) # objs[1].mass

=============================================================================
